---- MODULE Spec2Model ----
(***************************************************************************)
(* The extract command of kafka-cli: parse the time window, resolve it to  *)
(* an offset range of partition 0, read the records of that range through  *)
(* a partition cursor under an overall deadline, and write the collected   *)
(* envelopes to the output file.                                           *)
(*                                                                         *)
(* The repository holds two versions of the command: one on franz-go       *)
(* (kgo/kadm) and one on kafka-go.  Both are modelled; impl says which     *)
(* one runs.  The broker, the clock and the file system are the            *)
(* environment: their answers are drawn from small sets.                   *)
(***************************************************************************)
EXTENDS Integers, Sequences, FiniteSets, TLC

(***************************************************************************)
(* Bounds of the model.                                                    *)
(***************************************************************************)
\* Largest log-end offset the partition has when the command starts.
MaxLast == 3
\* Records that producers append to the partition while the command reads.
MaxProduced == 1
\* Largest number of records one franz-go fetch carries.
MaxBatch == 2
\* Largest gap, in milliseconds, between the two time.Now() calls of the default window.
MaxClockStep == 1
\* The offset of the process's local zone (time.Local), in seconds east of UTC.
LocalZoneOffset == 3600
\* The wall clock (seconds since the epoch) when the command starts.
NowBase == 20000

(***************************************************************************)
(* Program constants.                                                      *)
(***************************************************************************)
\* defaultWindows := 15 // 15 minutes
defaultWindows == 15

VARIABLES
    impl,           \* "franz" or "kgo": the version of the command that runs
    topic,          \* --topic
    fromStr,        \* --from
    toStr,          \* --to
    output,         \* --output
    logStart,       \* the partition's earliest offset (broker state)
    logEnd,         \* the partition's log-end offset (broker state)
    pc,             \* the position of RunE
    from,           \* parsed --from, seconds since the epoch
    to,             \* parsed --to
    firstOffset,
    lastOffset,
    startLookup,    \* the answer of the timestamp lookup for from
    endLookup,      \* the answer of the timestamp lookup for to
    startOffset,
    endOffset,
    cursorOpened,   \* a consumer client / reader on the partition was created
    cursor,         \* the offset of the next record the cursor delivers
    messages,       \* the accumulator: []MessageEnvelope
    deadlinePassed, \* readCtx is done
    lastFetch,      \* what the last PollFetches / ReadMessage returned
    endReason,      \* why the read loop ended
    fileExists,     \* the output file exists at the destination path
    fileContent,    \* the envelopes encoded into the output file
    result,         \* what RunE returned
    fn,             \* a call of one of the command's functions, taken alone
    consumer,       \* the consume command: readWithReader
    producer        \* the produce command: produceCmd.RunE

vars == <<impl, topic, fromStr, toStr, output, logStart, logEnd, pc, from, to,
          firstOffset, lastOffset, startLookup, endLookup, startOffset,
          endOffset, cursorOpened, cursor, messages, deadlinePassed, lastFetch,
          endReason, fileExists, fileContent, result, fn, consumer, producer>>

Impls == {"franz", "kgo"}

\* The content of a file nothing was encoded into.
NoContent == [kind |-> "none", items |-> <<>>]

\* No function is being looked at alone: the command itself runs.
NoCall == [op |-> "none"]

\* The consume and the produce command are not run.
NotRun == [pc |-> "none"]

(***************************************************************************)
(* Time strings.  A string is the layout it matches (kind), the wall-clock *)
(* time it spells (wall, in seconds) and, for the layouts that carry one,  *)
(* the UTC offset it spells (off, seconds east of UTC).                    *)
(***************************************************************************)
OffsetKinds == {"RFC3339", "RFC3339Nano"}

LocalKinds == {"T_sec", "sp_sec", "T_min", "sp_min"}

TimeStr(k, w, o) == [kind |-> k, wall |-> w, off |-> o]

EmptyStr == TimeStr("empty", 0, 0)

BadStr == TimeStr("bad", 0, 0)

\* The --from / --to values the model runs the command on.
InputTimeStrs ==
    { EmptyStr, BadStr,
      TimeStr("RFC3339", 7200, 0),
      TimeStr("T_sec", 10800 + LocalZoneOffset, 0) }

\* time.Time.Format(time.RFC3339) of an instant given in milliseconds, in
\* the local zone: the layout has no fraction, so the milliseconds are cut.
FormatRFC3339(ms) ==
    TimeStr("RFC3339", (ms \div 1000) + LocalZoneOffset, LocalZoneOffset)

\* formats, in the order parseTimeWithTimezone tries them.
Formats == <<"RFC3339", "RFC3339Nano", "T_sec", "sp_sec", "T_min", "sp_min">>

\* time.Parse(format, timeStr) succeeds: the string has the form of the
\* layout.  A fraction of a second after the seconds is read whether or not
\* the layout spells one, and the .999999999 of RFC3339Nano may be absent
\* from the string: the two RFC3339 layouts accept the same strings.
LayoutAccepts(format, s) ==
    IF format \in OffsetKinds THEN s.kind \in OffsetKinds ELSE s.kind = format

\* The instant of a string that format i accepted: formats[:2] are read by
\* time.Parse with the offset the string spells, formats[2:] by
\* time.ParseInLocation(..., time.Local).
ParsedInstant_AlwaysLocal(i, s) == s.wall - LocalZoneOffset

ParsedInstant(i, s) ==
    IF i <= 2 THEN s.wall - s.off ELSE s.wall - LocalZoneOffset

\* The two loops over formats: the first format that accepts the string wins.
RECURSIVE TryFormats(_, _)
TryFormats(s, i) ==
    IF i > Len(Formats) THEN [ok |-> FALSE, t |-> 0, format |-> 0]
    ELSE IF LayoutAccepts(Formats[i], s)
         THEN [ok |-> TRUE, t |-> ParsedInstant(i, s), format |-> i]
         ELSE TryFormats(s, i + 1)

\* The parser taking a string no layout accepts for the zero time.
parseTimeWithTimezone_NoError(s) ==
    [ok |-> TRUE, t |-> TryFormats(s, 1).t, format |-> TryFormats(s, 1).format]

\* parseTimeWithTimezone: the instant in seconds since the epoch, or the
\* error "unable to parse time".
parseTimeWithTimezone(s) == TryFormats(s, 1)

\* The default window taken only when both flags are missing.
UseDefaultWindow_Both(f, t) == f = EmptyStr /\ t = EmptyStr

\* if fromStr == "" || toStr == "": both strings are replaced.
UseDefaultWindow(f, t) == f = EmptyStr \/ t = EmptyStr

\* The strings RunE parses, given the two readings of the clock (in
\* milliseconds) that the default window takes.
WindowStrs(f, t, now1, now2) ==
    IF UseDefaultWindow(f, t)
    THEN <<FormatRFC3339(now1 - defaultWindows * 60 * 1000), FormatRFC3339(now2)>>
    ELSE <<f, t>>

\* The readings of time.Now(), in milliseconds: on a full second, and one
\* millisecond before the next.
NowValues == {NowBase * 1000, NowBase * 1000 + 999}

(***************************************************************************)
(* Init: the flags as cobra parsed them, and the partition as the broker   *)
(* holds it.  The flag defaults are "" (init()).                           *)
(***************************************************************************)
Init ==
    /\ impl \in Impls
    /\ topic \in {"", "t"}
    /\ fromStr \in InputTimeStrs
    /\ toStr \in InputTimeStrs
    /\ output \in {"", "out.json"}
    /\ logStart \in 0..MaxLast
    /\ logEnd \in logStart..MaxLast
    /\ pc = "start"
    /\ from = 0
    /\ to = 0
    /\ firstOffset = 0
    /\ lastOffset = 0
    /\ startLookup = [kind |-> "none", v |-> 0]
    /\ endLookup = [kind |-> "none", v |-> 0]
    /\ startOffset = 0
    /\ endOffset = 0
    /\ cursorOpened = FALSE
    /\ cursor = 0
    /\ messages = <<>>
    /\ deadlinePassed = FALSE
    /\ lastFetch = "none"
    /\ endReason = "none"
    /\ fileExists = FALSE
    /\ fileContent = NoContent
    /\ result = "running"
    /\ fn = NoCall
    /\ consumer = NotRun
    /\ producer = NotRun

\* return fmt.Errorf(...)
Fail(kind) ==
    /\ pc' = "done"
    /\ result' = kind

(***************************************************************************)
(* RunE, first part: the topic check, the default window and the parsing   *)
(* of both time strings.                                                   *)
(***************************************************************************)
ParseWindow ==
    /\ pc = "start"
    /\ \E now1 \in NowValues, step \in 0..MaxClockStep :
         LET w == WindowStrs(fromStr, toStr, now1, now1 + step)
             pf == parseTimeWithTimezone(w[1])
             pt == parseTimeWithTimezone(w[2])
         IN  IF topic = ""
             THEN /\ Fail("TopicMandatory")
                  /\ UNCHANGED <<fromStr, toStr, from, to>>
             ELSE /\ fromStr' = w[1]
                  /\ toStr' = w[2]
                  /\ IF ~pf.ok
                     THEN /\ Fail("InvalidTime")
                          /\ UNCHANGED <<from, to>>
                     ELSE IF ~pt.ok
                     THEN /\ Fail("InvalidTime")
                          /\ from' = pf.t
                          /\ UNCHANGED to
                     ELSE /\ from' = pf.t
                          /\ to' = pt.t
                          /\ pc' = "connect"
                          /\ UNCHANGED result
    /\ UNCHANGED <<consumer, producer, fn, impl, topic, output, logStart, logEnd, firstOffset,
                   lastOffset, startLookup, endLookup, startOffset, endOffset,
                   cursorOpened, cursor, messages, deadlinePassed, lastFetch,
                   endReason, fileExists, fileContent>>

(***************************************************************************)
(* Connecting.  franz-go: NewAdminClient, ListTopics, the topic and its    *)
(* partitions.  kafka-go: DialLeader.                                      *)
(***************************************************************************)
ConnectOutcomes(i) ==
    IF i = "franz"
    THEN {"ok", "clientError", "listTopicsError", "noTopic", "noPartitions"}
    ELSE {"ok", "dialError"}

ConnectError(o) ==
    IF o \in {"noTopic", "noPartitions"} THEN "TopicNotFound" ELSE "ClientError"

Connect ==
    /\ pc = "connect"
    /\ \E o \in ConnectOutcomes(impl) :
         IF o = "ok"
         THEN pc' = "boundary" /\ UNCHANGED result
         ELSE Fail(ConnectError(o))
    /\ UNCHANGED <<consumer, producer, fn, impl, topic, fromStr, toStr, output, logStart, logEnd, from,
                   to, firstOffset, lastOffset, startLookup, endLookup,
                   startOffset, endOffset, cursorOpened, cursor, messages,
                   deadlinePassed, lastFetch, endReason, fileExists,
                   fileContent>>

(***************************************************************************)
(* The boundary offsets of partition 0.                                    *)
(***************************************************************************)
\* An answer of a boundary query: the offset, an error, or (franz-go) a
\* result that lacks the topic or partition 0.
BoundaryOutcomes(i) ==
    IF i = "franz" THEN {"ok", "error", "missing"} ELSE {"ok", "error"}

\* var firstOffset, lastOffset int64: zero unless the result holds partition 0.
BoundaryValue(o, v) == IF o = "ok" THEN v ELSE 0

\* franz-go: if firstOffset >= lastOffset; kafka-go: if firstOffset == lastOffset.
PartitionEmpty_Inverted(i, first, last) == first > last

PartitionEmpty(i, first, last) ==
    IF i = "franz" THEN first >= last ELSE first = last

ReadBoundaryOffsets ==
    /\ pc = "boundary"
    /\ \E oe \in BoundaryOutcomes(impl), ol \in BoundaryOutcomes(impl) :
         IF oe = "error" \/ ol = "error"
         THEN /\ Fail("OffsetsError")
              /\ UNCHANGED <<firstOffset, lastOffset>>
         ELSE LET first == BoundaryValue(oe, logStart)
                  last == BoundaryValue(ol, logEnd)
              IN  /\ firstOffset' = first
                  /\ lastOffset' = last
                  /\ IF PartitionEmpty(impl, first, last)
                     THEN Fail("EmptyPartition")
                     ELSE pc' = "lookupStart" /\ UNCHANGED result
    /\ UNCHANGED <<consumer, producer, fn, impl, topic, fromStr, toStr, output, logStart, logEnd, from,
                   to, startLookup, endLookup, startOffset, endOffset,
                   cursorOpened, cursor, messages, deadlinePassed, lastFetch,
                   endReason, fileExists, fileContent>>

(***************************************************************************)
(* The timestamp lookups.  An answer is an error, an offset, or (franz-go) *)
(* a result that lacks the topic or partition 0.  The offset is whatever   *)
(* the broker sends: -1 is its "no such offset" value.                     *)
(***************************************************************************)
LookupValues == (-1)..(MaxLast + 1)

LookupOutcomes(i) ==
    {[kind |-> "error", v |-> 0]}
        \cup {[kind |-> "value", v |-> x] : x \in LookupValues}
        \cup (IF i = "franz" THEN {[kind |-> "missing", v |-> 0]} ELSE {})

\* The fallback leaving the offset at its zero value instead of the boundary.
ResolveOffset_ZeroOnError(i, r, boundary) ==
    IF i = "franz"
    THEN IF r.kind = "value" THEN r.v ELSE 0
    ELSE IF r.kind = "error" THEN 0
         ELSE IF r.v = -1 THEN boundary
         ELSE r.v

\* The offset taken for an endpoint, given the lookup's answer and the
\* boundary offset that is the endpoint's default.
\* franz-go: the default unless err == nil and the result holds partition 0.
\* kafka-go: the default if err != nil or the offset is -1.
ResolveOffset(i, r, boundary) ==
    IF i = "franz"
    THEN IF r.kind = "value" THEN r.v ELSE boundary
    ELSE IF r.kind = "error" THEN boundary
         ELSE IF r.v = -1 THEN boundary
         ELSE r.v

\* The timestamp of the record at offset o, in milliseconds: later records
\* have later timestamps.
TimestampOf(o) == (o + 1) * 1000

\* What the broker answers to "the first offset with a timestamp at or after
\* t" on a partition holding the offsets lo..hi-1.  When no record is that
\* late, ListOffsetsAfterMilli (franz-go) gives the end offset and
\* conn.ReadOffset (kafka-go) gives -1 ("time is after all messages").
TimestampLookup(i, t, lo, hi) ==
    LET later == {o \in lo..(hi - 1) : TimestampOf(o) >= t}
    IN  IF later = {}
        THEN [kind |-> "value", v |-> IF i = "franz" THEN hi ELSE -1]
        ELSE [kind |-> "value",
              v |-> CHOOSE o \in later : \A q \in later : o <= q]

\* The offset RunE takes for an instant as the start or as the end of the
\* window, when the lookup answers.
ResolveEndpoint(i, role, t, first, last) ==
    ResolveOffset(i, TimestampLookup(i, t, first, last),
                  IF role = "start" THEN first ELSE last)

LookupStart ==
    /\ pc = "lookupStart"
    /\ \E r \in LookupOutcomes(impl) :
         /\ startLookup' = r
         /\ startOffset' = ResolveOffset(impl, r, firstOffset)
    /\ pc' = "lookupEnd"
    /\ UNCHANGED <<consumer, producer, fn, impl, topic, fromStr, toStr, output, logStart, logEnd, from,
                   to, firstOffset, lastOffset, endLookup, endOffset,
                   cursorOpened, cursor, messages, deadlinePassed, lastFetch,
                   endReason, fileExists, fileContent, result>>

\* The second lookup, and the check of the range that follows it.
\* if startOffset >= endOffset: "no messages found in time range".
\* The range check with > for >=: an empty range [s, s) passes it.
EmptyWindow_Strict(s, e) == s > e

\* if startOffset >= endOffset
EmptyWindow(s, e) == s >= e

LookupEnd ==
    /\ pc = "lookupEnd"
    /\ \E r \in LookupOutcomes(impl) :
         LET e == ResolveOffset(impl, r, lastOffset)
         IN  /\ endLookup' = r
             /\ endOffset' = e
             /\ IF EmptyWindow(startOffset, e)
                THEN Fail("EmptyResultWindow")
                ELSE pc' = "position" /\ UNCHANGED result
    /\ UNCHANGED <<consumer, producer, fn, impl, topic, fromStr, toStr, output, logStart, logEnd, from,
                   to, firstOffset, lastOffset, startLookup, startOffset,
                   cursorOpened, cursor, messages, deadlinePassed, lastFetch,
                   endReason, fileExists, fileContent>>

(***************************************************************************)
(* Positioning.  franz-go: NewPartitionConsumerClient(topic, 0,            *)
(* startOffset), which may fail.  kafka-go: NewReader, which cannot, then  *)
(* SetOffset(startOffset), which may.  The cursor delivers the records the *)
(* partition holds from startOffset on, in offset order.                   *)
(***************************************************************************)
Max(a, b) == IF a >= b THEN a ELSE b

CursorStart(s, earliest) == Max(s, earliest)

\* The positioning step going on to read when it has failed.
OpenCursor_IgnoreFailure ==
    /\ pc = "position"
    /\ \E ok \in BOOLEAN :
         /\ cursorOpened' = (ok \/ impl = "kgo")
         /\ cursor' = CursorStart(startOffset, logStart)
         /\ pc' = "reading"
         /\ UNCHANGED result
    /\ UNCHANGED <<consumer, producer, fn, impl, topic, fromStr, toStr, output, logStart, logEnd, from,
                   to, firstOffset, lastOffset, startLookup, endLookup,
                   startOffset, endOffset, messages, deadlinePassed, lastFetch,
                   endReason, fileExists, fileContent>>

OpenCursor ==
    /\ pc = "position"
    /\ \E ok \in BOOLEAN :
         /\ cursorOpened' = (ok \/ impl = "kgo")
         /\ IF ok
            THEN /\ cursor' = CursorStart(startOffset, logStart)
                 /\ pc' = "reading"
                 /\ UNCHANGED result
            ELSE /\ Fail("CursorPositionError")
                 /\ UNCHANGED cursor
    /\ UNCHANGED <<consumer, producer, fn, impl, topic, fromStr, toStr, output, logStart, logEnd, from,
                   to, firstOffset, lastOffset, startLookup, endLookup,
                   startOffset, endOffset, messages, deadlinePassed, lastFetch,
                   endReason, fileExists, fileContent>>

(***************************************************************************)
(* The read loop.                                                          *)
(***************************************************************************)
\* The partition grows while the command reads: a producer appends a record.
ProduceRecord ==
    /\ pc = "reading"
    /\ logEnd < MaxLast + MaxProduced
    /\ logEnd' = logEnd + 1
    /\ UNCHANGED <<consumer, producer, fn, impl, topic, fromStr, toStr, output, logStart, pc, from, to,
                   firstOffset, lastOffset, startLookup, endLookup, startOffset,
                   endOffset, cursorOpened, cursor, messages, deadlinePassed,
                   lastFetch, endReason, fileExists, fileContent, result>>

\* context.WithTimeout(ctx, timeoutDuration): the deadline passes.
DeadlineElapses ==
    /\ pc = "reading"
    /\ ~deadlinePassed
    /\ deadlinePassed' = TRUE
    /\ UNCHANGED <<consumer, producer, fn, impl, topic, fromStr, toStr, output, logStart, logEnd, pc,
                   from, to, firstOffset, lastOffset, startLookup, endLookup,
                   startOffset, endOffset, cursorOpened, cursor, messages,
                   lastFetch, endReason, fileExists, fileContent, result>>

(***************************************************************************)
(* Records.  The payload of a record is the kind of JSON text it is (or    *)
(* "invalid") and the bytes it is made of (text); its headers are a list   *)
(* of key/value pairs.  The record at offset o has the payload and the     *)
(* headers that its offset selects.                                        *)
(***************************************************************************)
PayloadKinds == <<"object", "invalid", "array", "null", "string", "number", "bool">>

HeaderLists ==
    << <<>>,
       << <<"k1", "a">> >>,
       << <<"k1", "a">>, <<"k2", "b">>, <<"k1", "c">> >> >>

Payload(k, x) == [json |-> k, text |-> x]

RecordAt(o) ==
    [Offset |-> o,
     Value |-> Payload(PayloadKinds[(o % Len(PayloadKinds)) + 1], o),
     Headers |-> HeaderLists[(o % Len(HeaderLists)) + 1]]

\* headers[h.Key] = string(h.Value), for each header in order: the last
\* value of a key stays.
ConvertHeaders(hs) ==
    [k \in {hs[i][1] : i \in DOMAIN hs} |->
        LET last == CHOOSE i \in DOMAIN hs :
                        /\ hs[i][1] = k
                        /\ \A j \in DOMAIN hs : hs[j][1] = k => j <= i
        IN  hs[last][2]]

\* json.Unmarshal(value, &body), body a map[string]interface{}, returns no
\* error: the text is a JSON object, or null (which leaves body nil).
UnmarshalsIntoMap_AnyValue(value) == TRUE

UnmarshalsIntoMap(value) == value.json \in {"object", "null"}

\* body after the parse: the object, nil, or {"raw": string(value)}.
ParseBody(value) ==
    IF UnmarshalsIntoMap(value)
    THEN [kind |-> value.json, text |-> value.text]
    ELSE [kind |-> "raw", text |-> value.text]

\* The envelope made of a record.  Offset is not a field of
\* MessageEnvelope: it records which record the envelope was made from.
MakeEnvelope(t, rec) ==
    [Topic |-> t,
     Headers |-> ConvertHeaders(rec.Headers),
     Message |-> ParseBody(rec.Value),
     Offset |-> rec.Offset]

\* The envelope of the record at offset o.
Envelope(t, o) == MakeEnvelope(t, RecordAt(o))

\* The end-offset check with > for >=: the record at endOffset passes it.
ReachedEndOffset_Strict(o, e) == o > e

\* if record.Offset >= endOffset / if m.Offset >= endOffset
ReachedEndOffset(o, e) == o >= e

\* The records at offsets a..b-1, in offset order.
RECURSIVE Records(_, _)
Records(a, b) == IF a >= b THEN <<>> ELSE <<a>> \o Records(a + 1, b)

\* The loop body with the append placed before the end-offset check.
RECURSIVE ProcessRecords_AppendFirst(_, _, _, _)
ProcessRecords_AppendFirst(recs, msgs, e, t) ==
    IF recs = <<>> THEN [messages |-> msgs, reachedEnd |-> FALSE]
    ELSE IF ReachedEndOffset(Head(recs), e)
         THEN [messages |-> Append(msgs, Envelope(t, Head(recs))), reachedEnd |-> TRUE]
         ELSE ProcessRecords_AppendFirst(Tail(recs),
                  Append(msgs, Envelope(t, Head(recs))), e, t)

\* The loop body skipping the records at or past endOffset without ending
\* the loop.
RECURSIVE ProcessRecords_NoStop(_, _, _, _)
ProcessRecords_NoStop(recs, msgs, e, t) ==
    IF recs = <<>> THEN [messages |-> msgs, reachedEnd |-> FALSE]
    ELSE IF ReachedEndOffset(Head(recs), e)
         THEN ProcessRecords_NoStop(Tail(recs), msgs, e, t)
         ELSE ProcessRecords_NoStop(Tail(recs),
                  Append(msgs, Envelope(t, Head(recs))), e, t)

\* The body of the EachPartition callback: the records of the fetch in
\* order, each appended unless its offset is at or past endOffset, at which
\* the callback returns with reachedEnd set.
RECURSIVE ProcessRecords(_, _, _, _)
ProcessRecords(recs, msgs, e, t) ==
    IF recs = <<>> THEN [messages |-> msgs, reachedEnd |-> FALSE]
    ELSE IF ReachedEndOffset(Head(recs), e)
         THEN [messages |-> msgs, reachedEnd |-> TRUE]
         ELSE ProcessRecords(Tail(recs), Append(msgs, Envelope(t, Head(recs))), e, t)

\* The loop without a check of the deadline.
DeadlineSeen_Never(passed) == FALSE

\* case <-readCtx.Done(): the loop's own check of the deadline.
DeadlineSeen(passed) == passed

\* The timeout branch dropping what was read.
OnDeadline_Discard ==
    /\ lastFetch' = "deadline"
    /\ endReason' = "deadline"
    /\ pc' = "create"
    /\ messages' = <<>>
    /\ UNCHANGED cursor

\* "Finished reading: timeout reached" / "Finished reading: %v": the loop
\* ends and the accumulator is left as it is.
OnDeadline ==
    /\ lastFetch' = "deadline"
    /\ endReason' = "deadline"
    /\ pc' = "create"
    /\ UNCHANGED <<cursor, messages>>

\* What PollFetches returns: errors alone, errors together with records,
\* nothing, or records.
FetchKinds == {"error", "errorWithRecords", "empty", "records"}

\* if errs := fetches.Errors(); len(errs) > 0 { ...; continue }
\* if fetches.Empty() { continue }
FetchSkipped(kind) == kind \in {"error", "errorWithRecords", "empty"}

\* One iteration of the franz-go loop.
FranzPoll ==
    /\ pc = "reading"
    /\ impl = "franz"
    /\ IF DeadlineSeen(deadlinePassed)
       THEN OnDeadline
       ELSE \E kind \in FetchKinds, n \in 0..MaxBatch :
              /\ (n = 0) = (kind \in {"error", "empty"})
              /\ cursor + n <= logEnd
              /\ lastFetch' = kind
              /\ cursor' = cursor + n
              /\ IF FetchSkipped(kind)
                 THEN UNCHANGED <<messages, endReason, pc>>
                 ELSE LET r == ProcessRecords(Records(cursor, cursor + n),
                                              messages, endOffset, topic)
                      IN  /\ messages' = r.messages
                          /\ IF r.reachedEnd
                             THEN endReason' = "endOffset" /\ pc' = "create"
                             ELSE UNCHANGED <<endReason, pc>>
    /\ UNCHANGED <<consumer, producer, fn, impl, topic, fromStr, toStr, output, logStart, logEnd, from,
                   to, firstOffset, lastOffset, startLookup, endLookup,
                   startOffset, endOffset, cursorOpened, deadlinePassed,
                   fileExists, fileContent, result>>

\* if readErr != nil { break }: any error of ReadMessage ends the loop.
ReadErrorEndsLoop(kind) == kind = "error"

\* One iteration of the kafka-go loop.  ReadMessage returns the next record,
\* or an error: the deadline's once it has passed, or another one before.
KgoReadMessage ==
    /\ pc = "reading"
    /\ impl = "kgo"
    /\ IF DeadlineSeen(deadlinePassed)
       THEN OnDeadline
       ELSE \E kind \in {"error", "record"} :
              /\ lastFetch' = kind
              /\ IF kind = "error"
                 THEN /\ UNCHANGED <<cursor, messages>>
                      /\ IF ReadErrorEndsLoop(kind)
                         THEN endReason' = "error" /\ pc' = "create"
                         ELSE UNCHANGED <<endReason, pc>>
                 ELSE /\ cursor < logEnd
                      /\ cursor' = cursor + 1
                      /\ LET r == ProcessRecords(<<cursor>>, messages, endOffset, topic)
                         IN  /\ messages' = r.messages
                             /\ IF r.reachedEnd
                                THEN endReason' = "endOffset" /\ pc' = "create"
                                ELSE UNCHANGED <<endReason, pc>>
    /\ UNCHANGED <<consumer, producer, fn, impl, topic, fromStr, toStr, output, logStart, logEnd, from,
                   to, firstOffset, lastOffset, startLookup, endLookup,
                   startOffset, endOffset, cursorOpened, deadlinePassed,
                   fileExists, fileContent, result>>

(***************************************************************************)
(* The output file.                                                        *)
(***************************************************************************)
\* os.Create(output) fails on the empty path, and may fail on any other.
CreateOutcomes(path) == IF path = "" THEN {FALSE} ELSE BOOLEAN

CreateFile ==
    /\ pc = "create"
    /\ \E ok \in CreateOutcomes(output) :
         IF ok
         THEN /\ fileExists' = TRUE
              /\ pc' = "encode"
              /\ UNCHANGED result
         ELSE /\ Fail("OutputWriteError")
              /\ UNCHANGED fileExists
    /\ UNCHANGED <<consumer, producer, fn, impl, topic, fromStr, toStr, output, logStart, logEnd, from,
                   to, firstOffset, lastOffset, startLookup, endLookup,
                   startOffset, endOffset, cursorOpened, cursor, messages,
                   deadlinePassed, lastFetch, endReason, fileContent>>

\* What enc.Encode(messages) writes: messages is nil until the first append,
\* and a nil slice is encoded as null, any other as an array of its elements.
EncodeMessages(msgs) ==
    IF msgs = <<>>
    THEN [kind |-> "null", items |-> <<>>]
    ELSE [kind |-> "array", items |-> msgs]

\* enc.Encode(messages): on an error RunE returns; the created file stays.
EncodeFile ==
    /\ pc = "encode"
    /\ \E ok \in BOOLEAN :
         IF ok
         THEN /\ fileContent' = EncodeMessages(messages)
              /\ pc' = "done"
              /\ result' = "ok"
         ELSE /\ Fail("OutputWriteError")
              /\ UNCHANGED fileContent
    /\ UNCHANGED <<consumer, producer, fn, impl, topic, fromStr, toStr, output, logStart, logEnd, from,
                   to, firstOffset, lastOffset, startLookup, endLookup,
                   startOffset, endOffset, cursorOpened, cursor, messages,
                   deadlinePassed, lastFetch, endReason, fileExists>>

Next ==
    \/ ParseWindow
    \/ Connect
    \/ ReadBoundaryOffsets
    \/ LookupStart
    \/ LookupEnd
    \/ OpenCursor
    \/ ProduceRecord
    \/ DeadlineElapses
    \/ FranzPoll
    \/ KgoReadMessage
    \/ CreateFile
    \/ EncodeFile

Spec == Init /\ [][Next]_vars

(***************************************************************************)
(* The functions of the command taken alone: a call is drawn with its      *)
(* input, and the function is applied to it.                               *)
(***************************************************************************)
ParseInputs ==
    {EmptyStr, BadStr}
        \cup {TimeStr(k, w, o) : k \in OffsetKinds,
                                 w \in {0, 60, 3600, 7200, 86400},
                                 o \in {-3600, 0, 3600}}
        \cup {TimeStr(k, w, 0) : k \in LocalKinds,
                                 w \in {0, 60, 3600, 7200, 86400}}

ParseCalls ==
    {[op |-> "parse", done |-> FALSE, in |-> x, out |-> [ok |-> FALSE]] :
        x \in ParseInputs}

DecodeInputs ==
    {[topic |-> t, rec |-> [Offset |-> 0, Value |-> Payload(k, x), Headers |-> h]] :
        t \in {"t", "u"},
        k \in {PayloadKinds[i] : i \in DOMAIN PayloadKinds},
        x \in {1, 2},
        h \in {HeaderLists[i] : i \in DOMAIN HeaderLists}}

DecodeCalls ==
    {[op |-> "decode", done |-> FALSE, in |-> x, out |-> [ok |-> FALSE]] :
        x \in DecodeInputs}

\* The instants looked up: between, on and around the records' timestamps.
ResolveInstants == {500 * k : k \in 0..(2 * MaxLast + 3)}

ResolveInputs ==
    {[impl |-> i, role |-> r, first |-> lo, last |-> hi, t1 |-> a, t2 |-> b] :
        i \in Impls, r \in {"start", "end"},
        lo \in 0..MaxLast, hi \in 1..MaxLast,
        a \in ResolveInstants, b \in ResolveInstants}

ResolveCalls ==
    {[op |-> "resolve", done |-> FALSE, in |-> x, out |-> [ok |-> FALSE]] :
        x \in {y \in ResolveInputs : y.first < y.last /\ y.t1 < y.t2}}

(***************************************************************************)
(* The configuration read from the environment.  An environment variable   *)
(* is unset, or set to a string: a word, written in lower or in upper      *)
(* case, with or without white space around it.                            *)
(***************************************************************************)
EnvWords ==
    {"1", "true", "yes", "on", "0", "false", "no", "off",
     "", "2", "t", "not-a-bool"}

\* The words that have letters, so that an upper-case spelling differs.
Lettered == EnvWords \ {"1", "0", "2", ""}

Unset == [set |-> FALSE, word |-> "", upper |-> FALSE, padded |-> FALSE]

EnvString(w, u, p) == [set |-> TRUE, word |-> w, upper |-> u, padded |-> p]

EnvValues ==
    {Unset} \cup {EnvString(w, u, p) : w \in Lettered, u \in BOOLEAN, p \in BOOLEAN}
            \cup {EnvString(w, FALSE, p) : w \in EnvWords \ Lettered, p \in BOOLEAN}

\* strings.TrimSpace and strings.ToLower
TrimSpace(v) == [v EXCEPT !.padded = FALSE]

ToLower(v) == [v EXCEPT !.upper = FALSE]

\* lookupEnvBool counting every value it does not recognise as false.
lookupEnvBool_DefaultFalse(v) ==
    IF ~v.set THEN [val |-> FALSE, ok |-> FALSE]
    ELSE IF ToLower(TrimSpace(v)) \in
              {EnvString(w, FALSE, FALSE) : w \in {"1", "true", "yes", "on"}}
         THEN [val |-> TRUE, ok |-> TRUE]
         ELSE [val |-> FALSE, ok |-> TRUE]

\* lookupEnvBool(key), v being what os.LookupEnv(key) gives.
lookupEnvBool(v) ==
    IF ~v.set THEN [val |-> FALSE, ok |-> FALSE]
    ELSE IF ToLower(TrimSpace(v)) \in
              {EnvString(w, FALSE, FALSE) : w \in {"1", "true", "yes", "on"}}
         THEN [val |-> TRUE, ok |-> TRUE]
         ELSE IF ToLower(TrimSpace(v)) \in
              {EnvString(w, FALSE, FALSE) : w \in {"0", "false", "no", "off"}}
         THEN [val |-> FALSE, ok |-> TRUE]
         ELSE [val |-> FALSE, ok |-> FALSE]

EnvBoolCalls ==
    {[op |-> "envbool", done |-> FALSE, in |-> v, out |-> [ok |-> FALSE]] :
        v \in EnvValues}

\* KAFKA_BROKERS as the list of addresses between its commas; <<>> is the
\* empty (or unset) variable.
BrokerLists ==
    {<<>>, <<"localhost:9092">>, <<"broker:9092">>,
     <<"broker:9092", "b-1.c1.kafka.eu-west-1.amazonaws.com:9098">>}

\* strings.Contains(broker, ".kafka.") && strings.Contains(broker, ".amazonaws.com")
IsMSK(broker) == broker = "b-1.c1.kafka.eu-west-1.amazonaws.com:9098"

\* What KAFKA_TLS_CA_FILE names: nothing, a file of certificates, a file
\* that cannot be read, a file that holds no certificate.
CAFiles == {"none", "valid", "unreadable", "notPEM"}

\* buildTLSConfigFromEnv: a *tls.Config, or an error.
buildTLSConfigFromEnv(ca) ==
    IF ca \in {"unreadable", "notPEM"}
    THEN [err |-> TRUE, tlsConfig |-> "nil"]
    ELSE [err |-> FALSE, tlsConfig |-> "set"]

\* cfg.TLSEnabled with the default for local brokers applied after the
\* override of the environment.
TLSEnabledFor_DefaultLast(brokers, tlsEnv) ==
    IF brokers = <<>> THEN FALSE
    ELSE IF lookupEnvBool(tlsEnv).ok THEN lookupEnvBool(tlsEnv).val
    ELSE TRUE

\* cfg.TLSEnabled: true, false when KAFKA_BROKERS is empty, and the value of
\* KAFKA_TLS_ENABLED over both when lookupEnvBool recognises it.
TLSEnabledFor(brokers, tlsEnv) ==
    IF lookupEnvBool(tlsEnv).ok THEN lookupEnvBool(tlsEnv).val
    ELSE brokers # <<>>

\* cfg.UseAWSIAM: the recognised value of KAFKA_USE_AWS_IAM, or else set
\* when one of the brokers is an MSK address.
UseAWSIAMFor(brokers, iamEnv) ==
    \/ lookupEnvBool(iamEnv).ok /\ lookupEnvBool(iamEnv).val
    \/ \E i \in DOMAIN brokers : IsMSK(brokers[i])

\* NewConfig(), env being the environment it reads.
NewConfig(env) ==
    LET brokers == IF env.brokers = <<>> THEN <<"localhost:9092">> ELSE env.brokers
        tls == TLSEnabledFor(env.brokers, env.tls)
        iam == UseAWSIAMFor(brokers, env.iam)
        failed == [err |-> TRUE, Brokers |-> <<>>, TLSEnabled |-> FALSE,
                   UseAWSIAM |-> FALSE, tlsConfig |-> "nil"]
    IN  IF iam /\ (env.region = "" \/ ~env.awsLoads)
        THEN failed
        ELSE IF tls /\ buildTLSConfigFromEnv(env.ca).err
        THEN failed
        ELSE [err |-> FALSE, Brokers |-> brokers, TLSEnabled |-> tls,
              UseAWSIAM |-> iam,
              tlsConfig |-> IF tls THEN buildTLSConfigFromEnv(env.ca).tlsConfig
                            ELSE "nil"]

ConfigEnvs ==
    {[brokers |-> b, tls |-> t, iam |-> i, region |-> r, awsLoads |-> a, ca |-> c] :
        b \in BrokerLists,
        t \in {Unset, EnvString("true", FALSE, FALSE), EnvString("true", TRUE, TRUE),
               EnvString("false", FALSE, FALSE), EnvString("0", FALSE, TRUE),
               EnvString("on", FALSE, FALSE), EnvString("not-a-bool", FALSE, FALSE),
               EnvString("", FALSE, FALSE)},
        i \in {Unset, EnvString("true", FALSE, FALSE),
               EnvString("false", FALSE, FALSE), EnvString("2", FALSE, FALSE)},
        r \in {"", "eu-west-1"},
        a \in BOOLEAN,
        c \in CAFiles}

ConfigCalls ==
    {[op |-> "config", done |-> FALSE, in |-> e, out |-> [ok |-> FALSE]] :
        e \in ConfigEnvs}

(***************************************************************************)
(* The read deadline.  A time.Duration is an int64 of nanoseconds; an      *)
(* int64 is written here as its eight bytes, the least significant first,  *)
(* in two's complement, so that the arithmetic wraps as Go's does.         *)
(***************************************************************************)
\* time.Millisecond and 10*time.Second, in nanoseconds.
Millisecond == <<64, 66, 15, 0, 0, 0, 0, 0>>

TenSeconds == <<0, 228, 11, 84, 2, 0, 0, 0>>

\* The int64 whose byte number j + 1 is k and whose other bytes are 0.
Shifted(k, j) == [i \in 1..8 |-> IF i = j + 1 THEN k ELSE 0]

\* Carrying, from byte k on: the bytes of the sum of columns, modulo 2^64.
RECURSIVE Carry(_, _, _)
Carry(cols, k, c) ==
    IF k > Len(cols) THEN <<>>
    ELSE <<(cols[k] + c) % 256>> \o Carry(cols, k + 1, (cols[k] + c) \div 256)

\* Column k of the product x * y: the sum of x[i] * y[k - i + 1], i from n to k.
RECURSIVE Column(_, _, _, _)
Column(x, y, k, n) ==
    IF n > k THEN 0 ELSE x[n] * y[k - n + 1] + Column(x, y, k, n + 1)

\* x * y + z on int64, wrapping.
MulAdd(x, y, z) == Carry([k \in 1..8 |-> Column(x, y, k, 1) + z[k]], 1, 0)

\* x + 1 on int64.
Succ64(x) == Carry([k \in 1..8 |-> x[k] + (IF k = 1 THEN 1 ELSE 0)], 1, 0)

Negative(x) == x[8] >= 128

\* x < y as unsigned numbers, comparing from byte k down.
RECURSIVE BelowFrom(_, _, _)
BelowFrom(x, y, k) ==
    IF k = 0 THEN FALSE
    ELSE IF x[k] # y[k] THEN x[k] < y[k]
    ELSE BelowFrom(x, y, k - 1)

\* x < y as int64.
Less64(x, y) ==
    IF Negative(x) # Negative(y) THEN Negative(x) ELSE BelowFrom(x, y, 8)

\* timeoutDuration := 10*time.Second + time.Duration(expectedMessages)*time.Millisecond
timeoutDuration(expectedMessages) == MulAdd(expectedMessages, Millisecond, TenSeconds)

\* The values of expectedMessages = endOffset - startOffset taken: from 1
\* to 2^63 - 1, among them the last one whose timeout fits an int64.
ExpectedCounts ==
    {Shifted(k, j) : k \in {1, 2, 100, 127}, j \in 0..7}
        \cup {<<230, 51, 208, 123, 99, 8, 0, 0>>,
               <<231, 51, 208, 123, 99, 8, 0, 0>>,
               <<254, 255, 255, 255, 255, 255, 255, 127>>}

TimeoutCalls ==
    {[op |-> "timeout", done |-> FALSE, in |-> e, out |-> [ok |-> FALSE]] :
        e \in ExpectedCounts}

InitFn ==
    /\ fn \in ParseCalls \cup DecodeCalls \cup ResolveCalls
               \cup EnvBoolCalls \cup ConfigCalls \cup TimeoutCalls
    /\ impl = "franz"
    /\ topic = "t"
    /\ fromStr = EmptyStr
    /\ toStr = EmptyStr
    /\ output = ""
    /\ logStart = 0
    /\ logEnd = 0
    /\ pc = "fn"
    /\ from = 0
    /\ to = 0
    /\ firstOffset = 0
    /\ lastOffset = 0
    /\ startLookup = [kind |-> "none", v |-> 0]
    /\ endLookup = [kind |-> "none", v |-> 0]
    /\ startOffset = 0
    /\ endOffset = 0
    /\ cursorOpened = FALSE
    /\ cursor = 0
    /\ messages = <<>>
    /\ deadlinePassed = FALSE
    /\ lastFetch = "none"
    /\ endReason = "none"
    /\ fileExists = FALSE
    /\ fileContent = NoContent
    /\ result = "running"
    /\ consumer = NotRun
    /\ producer = NotRun

Command == <<impl, topic, fromStr, toStr, output, logStart, logEnd, pc, from,
             to, firstOffset, lastOffset, startLookup, endLookup, startOffset,
             endOffset, cursorOpened, cursor, messages, deadlinePassed,
             lastFetch, endReason, fileExists, fileContent, result>>

\* parseTimeWithTimezone(timeStr)
ApplyParse ==
    /\ fn.op = "parse"
    /\ ~fn.done
    /\ fn' = [fn EXCEPT !.done = TRUE, !.out = parseTimeWithTimezone(fn.in)]
    /\ UNCHANGED <<Command, consumer, producer>>

\* The loop body on one record: headers, body, MessageEnvelope{...}.
ApplyDecode ==
    /\ fn.op = "decode"
    /\ ~fn.done
    /\ fn' = [fn EXCEPT !.done = TRUE,
                        !.out = MakeEnvelope(fn.in.topic, fn.in.rec)]
    /\ UNCHANGED <<Command, consumer, producer>>

\* The offset taken for each of two instants in the same role, on the same
\* partition.
ApplyResolve ==
    /\ fn.op = "resolve"
    /\ ~fn.done
    /\ fn' = [fn EXCEPT
                 !.done = TRUE,
                 !.out = [o1 |-> ResolveEndpoint(fn.in.impl, fn.in.role, fn.in.t1,
                                                 fn.in.first, fn.in.last),
                          o2 |-> ResolveEndpoint(fn.in.impl, fn.in.role, fn.in.t2,
                                                 fn.in.first, fn.in.last)]]
    /\ UNCHANGED <<Command, consumer, producer>>

\* lookupEnvBool(key)
ApplyEnvBool ==
    /\ fn.op = "envbool"
    /\ ~fn.done
    /\ fn' = [fn EXCEPT !.done = TRUE, !.out = lookupEnvBool(fn.in)]
    /\ UNCHANGED <<Command, consumer, producer>>

\* NewConfig()
ApplyNewConfig ==
    /\ fn.op = "config"
    /\ ~fn.done
    /\ fn' = [fn EXCEPT !.done = TRUE, !.out = NewConfig(fn.in)]
    /\ UNCHANGED <<Command, consumer, producer>>

\* The timeout for a range of expectedMessages records, and for one more.
ApplyTimeout ==
    /\ fn.op = "timeout"
    /\ ~fn.done
    /\ fn' = [fn EXCEPT !.done = TRUE,
                        !.out = [t |-> timeoutDuration(fn.in),
                                 next |-> timeoutDuration(Succ64(fn.in))]]
    /\ UNCHANGED <<Command, consumer, producer>>

NextFn ==
    \/ ApplyTimeout
    \/ ApplyParse
    \/ ApplyDecode
    \/ ApplyResolve
    \/ ApplyEnvBool
    \/ ApplyNewConfig

FnSpec == InitFn /\ [][NextFn]_vars

(***************************************************************************)
(* The consume command: readWithReader, in its franz-go and its kafka-go   *)
(* version.  The extract command is not run.                               *)
(***************************************************************************)
NoCommand ==
    /\ impl = "franz"
    /\ topic = ""
    /\ fromStr = EmptyStr
    /\ toStr = EmptyStr
    /\ output = ""
    /\ logStart = 0
    /\ logEnd = 0
    /\ pc = "none"
    /\ from = 0
    /\ to = 0
    /\ firstOffset = 0
    /\ lastOffset = 0
    /\ startLookup = [kind |-> "none", v |-> 0]
    /\ endLookup = [kind |-> "none", v |-> 0]
    /\ startOffset = 0
    /\ endOffset = 0
    /\ cursorOpened = FALSE
    /\ cursor = 0
    /\ messages = <<>>
    /\ deadlinePassed = FALSE
    /\ lastFetch = "none"
    /\ endReason = "none"
    /\ fileExists = FALSE
    /\ fileContent = NoContent
    /\ result = "running"
    /\ fn = NoCall

\* The messages the loop prints are counted up to MaxConsumed.
MaxConsumed == 4

InitConsume ==
    /\ NoCommand
    /\ producer = NotRun
    /\ consumer \in {[pc |-> "create", impl |-> i, topic |-> t, client |-> "none",
                       deadline |-> FALSE, printed |-> 0, lastFetch |-> "none"] :
                         i \in Impls, t \in {"", "t"}}

\* consumeCmd.Run prints "Topic is required" for an empty topic and calls
\* readWithReader all the same.
\* franz-go: client, err := cfg.NewConsumerClient(groupID, topic), and on an
\* error the function returns; defer client.Close().
\* kafka-go: r := kafkaGo.NewReader(...), which returns no error.
\* Then context.WithDeadline(..., time.Now().Add(60*time.Second)).
ConsumeCreate ==
    /\ consumer.pc = "create"
    /\ \E ok \in IF consumer.impl = "franz" THEN BOOLEAN ELSE {TRUE} :
         consumer' = IF ok
                     THEN [consumer EXCEPT !.pc = "loop", !.client = "open"]
                     ELSE [consumer EXCEPT !.pc = "returned"]
    /\ UNCHANGED <<Command, fn, producer>>

\* The 60 seconds pass.
ConsumeDeadlineElapses ==
    /\ consumer.pc = "loop"
    /\ ~consumer.deadline
    /\ consumer' = [consumer EXCEPT !.deadline = TRUE]
    /\ UNCHANGED <<Command, fn, producer>>

\* The loop keeping on after every error.
ReturnsOnError_Never(i, deadlineDone) == FALSE

\* What the loop does with a fetch that holds an error.
\* franz-go: select { case <-readDeadline.Done(): return; default: continue }
\* kafka-go: if err != nil { break }
ReturnsOnError(i, deadlineDone) == IF i = "franz" THEN deadlineDone ELSE TRUE

\* return (franz-go, with the deferred client.Close()) or break and
\* r.Close() (kafka-go).
ConsumeReturn(kind) ==
    [consumer EXCEPT !.pc = "returned", !.client = "closed", !.lastFetch = kind]

\* One iteration of the loop before the deadline.  franz-go: PollFetches
\* returns errors, errors with records, nothing or records.  kafka-go:
\* ReadMessage returns an error or a message.
ConsumePoll ==
    /\ consumer.pc = "loop"
    /\ ~consumer.deadline
    /\ \E kind \in IF consumer.impl = "franz" THEN FetchKinds ELSE {"error", "record"} :
         IF kind \in {"error", "errorWithRecords"}
         THEN consumer' = IF ReturnsOnError(consumer.impl, consumer.deadline)
                          THEN ConsumeReturn(kind)
                          ELSE [consumer EXCEPT !.lastFetch = kind]
         ELSE IF kind = "empty"
         THEN consumer' = [consumer EXCEPT !.lastFetch = kind]
         ELSE /\ consumer.printed < MaxConsumed
              /\ consumer' = [consumer EXCEPT !.lastFetch = kind,
                                               !.printed = consumer.printed + 1]
    /\ UNCHANGED <<Command, fn, producer>>

\* After the deadline a call may still deliver what was fetched before it:
\* the poll that was under way (franz-go), a message waiting in the reader
\* (kafka-go: select takes any of its ready cases).
ConsumeLate ==
    /\ consumer.pc = "loop"
    /\ consumer.deadline
    /\ consumer.printed < MaxConsumed
    /\ consumer' = [consumer EXCEPT
                       !.lastFetch = IF consumer.impl = "franz" THEN "records"
                                     ELSE "record",
                       !.printed = consumer.printed + 1]
    /\ UNCHANGED <<Command, fn, producer>>

\* After the deadline the call returns the error of the context: PollFetches
\* a fetch with that error, ReadMessage the error itself.
ConsumeAfterDeadline ==
    /\ consumer.pc = "loop"
    /\ consumer.deadline
    /\ consumer' = IF ReturnsOnError(consumer.impl, consumer.deadline)
                   THEN ConsumeReturn("error")
                   ELSE [consumer EXCEPT !.lastFetch = "error"]
    /\ UNCHANGED <<Command, fn, producer>>

NextConsume ==
    \/ ConsumeCreate
    \/ ConsumeDeadlineElapses
    \/ ConsumePoll
    \/ ConsumeLate
    \/ ConsumeAfterDeadline

\* The clock advances, and a call made with a context that is done returns
\* its error.
ConsumeSpec ==
    /\ InitConsume
    /\ [][NextConsume]_vars
    /\ WF_vars(ConsumeDeadlineElapses)
    /\ WF_vars(ConsumeAfterDeadline)

(***************************************************************************)
(* The produce command.                                                    *)
(***************************************************************************)
\* The input file holds at most MaxEnvelopes envelopes.
MaxEnvelopes == 3

\* Envelope number i of the input file.
InputEnvelope(i) ==
    [Topic |-> IF i % 2 = 1 THEN "topicA" ELSE "topicB", Object |-> i]

RECURSIVE InputEnvelopes(_)
InputEnvelopes(n) ==
    IF n = 0 THEN <<>> ELSE Append(InputEnvelopes(n - 1), InputEnvelope(n))

\* What the path of --input holds: no readable file, text that is neither
\* an array of envelopes nor an envelope, null, one envelope, or an array.
InputFiles ==
    {[kind |-> k, items |-> <<>>] : k \in {"missing", "notJSON", "null"}}
        \cup {[kind |-> "object", items |-> InputEnvelopes(1)]}
        \cup {[kind |-> "array", items |-> InputEnvelopes(n)] : n \in 0..MaxEnvelopes}

\* HandleFileInput(inputFile): the envelopes in file order, or an error.
HandleFileInput(file) ==
    IF file.kind \in {"missing", "notJSON"}
    THEN [err |-> TRUE, inputs |-> <<>>]
    ELSE [err |-> FALSE, inputs |-> file.items]

\* The record written for an envelope: ProduceMessage(msg.Topic,
\* string(json.Marshal(msg.Object))).
Written(msg) == [Topic |-> msg.Topic, Value |-> [json |-> msg.Object]]

InitProduce ==
    /\ NoCommand
    /\ consumer = NotRun
    /\ producer \in {[pc |-> "start", message |-> m, inputFile |-> f, args |-> a,
                       file |-> c, messages |-> <<>>, next |-> 1, log |-> <<>>,
                       result |-> "running"] :
                         m \in {"", "hello"}, f \in {"", "in.json"},
                         a \in {<<>>, <<"topicA">>}, c \in InputFiles}

ProduceFail(kind) == [producer EXCEPT !.pc = "done", !.result = kind]

\* RunE up to the loop: the check of the flags, HandleFileInput, the check
\* of the topic argument.
ProduceStart ==
    /\ producer.pc = "start"
    /\ producer' =
         IF producer.message = "" /\ producer.inputFile = ""
         THEN ProduceFail("NoInput")
         ELSE IF producer.inputFile # ""
         THEN IF HandleFileInput(producer.file).err
              THEN ProduceFail("FileInput")
              ELSE [producer EXCEPT !.pc = "loop",
                                    !.messages = HandleFileInput(producer.file).inputs]
         ELSE IF Len(producer.args) < 1
         THEN ProduceFail("TopicRequired")
         ELSE [producer EXCEPT !.pc = "single"]
    /\ UNCHANGED <<Command, fn, consumer>>

\* The loop going on after a failed write.
EndsBatch_OnlyMarshal(outcome) == outcome = "marshalError"

\* if err != nil { return ... } after json.Marshal and after ProduceMessage.
EndsBatch(outcome) == outcome \in {"marshalError", "writeError"}

\* One iteration of for _, msg := range messages, or its end.  A write that
\* returns an error may or may not have reached the topic.
ProduceNext ==
    /\ producer.pc = "loop"
    /\ IF producer.next > Len(producer.messages)
       THEN producer' = [producer EXCEPT !.pc = "done", !.result = "ok"]
       ELSE \E outcome \in {"ok", "marshalError", "writeError"}, reached \in BOOLEAN :
              /\ (outcome = "ok") => reached
              /\ (outcome = "marshalError") => ~reached
              /\ LET log == IF reached
                            THEN Append(producer.log,
                                        Written(producer.messages[producer.next]))
                            ELSE producer.log
                 IN  producer' =
                       IF EndsBatch(outcome)
                       THEN [producer EXCEPT !.pc = "done", !.log = log,
                               !.result = IF outcome = "marshalError"
                                          THEN "Marshal" ELSE "Produce"]
                       ELSE [producer EXCEPT !.log = log,
                                              !.next = producer.next + 1]
    /\ UNCHANGED <<Command, fn, consumer>>

\* ProduceMessage(topic, message) of the --message branch.
ProduceSingle ==
    /\ producer.pc = "single"
    /\ \E ok \in BOOLEAN, reached \in BOOLEAN :
         /\ ok => reached
         /\ producer' =
              [producer EXCEPT
                 !.pc = "done",
                 !.result = IF ok THEN "ok" ELSE "Produce",
                 !.log = IF reached
                         THEN <<[Topic |-> producer.args[1],
                                 Value |-> producer.message]>>
                         ELSE <<>>]
    /\ UNCHANGED <<Command, fn, consumer>>

NextProduce ==
    \/ ProduceStart
    \/ ProduceNext
    \/ ProduceSingle

ProduceSpec == InitProduce /\ [][NextProduce]_vars

\* The same command run with a topic, two valid time strings and an output
\* path, under the scheduling the runtime gives: the loop keeps iterating
\* while it can, the file steps run, and the timer of readCtx fires.
InitLive ==
    /\ Init
    /\ topic = "t"
    /\ fromStr = TimeStr("RFC3339", 7200, 0)
    /\ toStr = TimeStr("T_sec", 10800 + LocalZoneOffset, 0)
    /\ output = "out.json"

LiveSpec ==
    /\ InitLive
    /\ [][Next]_vars
    /\ WF_vars(FranzPoll)
    /\ WF_vars(KgoReadMessage)
    /\ WF_vars(DeadlineElapses)

(***************************************************************************)
(* Properties.                                                             *)
(***************************************************************************)
\* The reader has been positioned: startOffset and endOffset are final.
Positioned == pc \in {"reading", "create", "encode"} \/ endReason # "none"

InWindow(env) == startOffset <= env.Offset /\ env.Offset < endOffset

\* The offsets of the records the partition holds inside [startOffset, endOffset).
HeldInWindow == {o \in logStart..(logEnd - 1) : startOffset <= o /\ o < endOffset}

\* The envelopes that reading the output file back gives.
FileEnvelopes == fileContent.items

OffsetsOf(seq) == {seq[i].Offset : i \in DOMAIN seq}

\* C1: every envelope in the accumulator, and every envelope in the output
\* file, was made from a record whose offset o has startOffset <= o < endOffset.
C1_EnvelopesInWindow ==
    /\ \A i \in DOMAIN messages : InWindow(messages[i])
    /\ \A i \in DOMAIN FileEnvelopes : InWindow(FileEnvelopes[i])

\* C1 witness: the loop met a record at or past endOffset after appending
\* at least two envelopes, and the file was written.
C1_Witness ==
    /\ pc = "done"
    /\ result = "ok"
    /\ endReason = "endOffset"
    /\ Len(FileEnvelopes) >= 2
    /\ cursor > endOffset

\* C2 (as claimed): when the loop ended on a record at or past endOffset, the
\* accumulator holds exactly one envelope for each record the partition holds
\* in [startOffset, endOffset).
C2_CompleteAtEndOffset ==
    endReason = "endOffset" =>
        /\ OffsetsOf(messages) = HeldInWindow
        /\ Len(messages) = Cardinality(HeldInWindow)

\* C3: the accumulator is in strictly increasing record-offset order, and it
\* never holds more than endOffset - startOffset envelopes.
C3_StrictlyIncreasing ==
    /\ \A i, j \in DOMAIN messages :
         i < j => messages[i].Offset < messages[j].Offset
    /\ Positioned => Len(messages) <= endOffset - startOffset

\* C3 witness: the loop is running and has appended at least two envelopes,
\* with records of the range still to come.
C3_Witness ==
    /\ pc = "reading"
    /\ Len(messages) >= 2
    /\ Len(messages) < endOffset - startOffset

\* C4 (as claimed): a run whose loop ended on the deadline ends with success
\* and with exactly the collected envelopes in the output file.  Stated for
\* the runs that were given an output path.
C4_DeadlineAlwaysSucceeds ==
    (pc = "done" /\ endReason = "deadline" /\ output # "") =>
        /\ result = "ok"
        /\ fileExists
        /\ FileEnvelopes = messages

\* C4 (amended): once the deadline has passed, the loop's next step ends it
\* with the accumulator as it was; the accumulator does not change afterwards;
\* and the run ends with success and exactly those envelopes in the file,
\* unless creating or encoding the file fails, which ends it with an
\* output-write error.
C4_DeadlineKeepsPartial ==
    /\ [][(pc = "reading" /\ deadlinePassed /\ pc' # "reading")
            => (endReason' = "deadline" /\ messages' = messages)]_vars
    /\ [][(pc \in {"create", "encode"}) => (messages' = messages)]_vars
    /\ []((pc = "done" /\ endReason = "deadline") =>
            \/ result = "ok" /\ fileExists /\ FileEnvelopes = messages
            \/ result = "OutputWriteError" /\ fileContent = NoContent)

\* C4 witness: the deadline ended the loop with at least one envelope but
\* fewer than endOffset - startOffset, and the file holds them.
C4_Witness ==
    /\ pc = "done"
    /\ endReason = "deadline"
    /\ result = "ok"
    /\ Len(FileEnvelopes) >= 1
    /\ Len(FileEnvelopes) < endOffset - startOffset

\* C5: once the deadline has passed the loop ends, whatever was fetched
\* before; and, the deadline passing eventually, every run that entered the
\* loop leaves it.
C5_LoopEndsAfterDeadline ==
    /\ (pc = "reading" /\ deadlinePassed) ~> (pc # "reading")
    /\ (pc = "reading") ~> (pc # "reading")

\* C5 witness: the loop has just ended on the deadline, before it had
\* collected the whole range.
C5_Witness ==
    /\ pc = "create"
    /\ endReason = "deadline"
    /\ deadlinePassed
    /\ Len(messages) < endOffset - startOffset

\* C6 (as claimed): before the deadline, a fetch that returns an error leaves
\* the loop running and the accumulator unchanged.
C6_FetchErrorKeepsReading ==
    [][(pc = "reading" /\ ~deadlinePassed /\ lastFetch' \in {"error", "errorWithRecords"})
         => (pc' = "reading" /\ messages' = messages)]_vars

\* C7 (as claimed): a run that ended with an error has left no output file.
C7_NoFileOnError ==
    (pc = "done" /\ result # "ok") => ~fileExists

\* Both time strings were parsed.
Parsed == pc # "start" /\ result \notin {"TopicMandatory", "InvalidTime"}

\* C8 (as claimed): with from >= to the command never opens a cursor, never
\* creates the file, and ends in no other way than with an error.
C8_EmptyWindowNeverReads ==
    (Parsed /\ from >= to) =>
        /\ ~cursorOpened
        /\ ~fileExists
        /\ result # "ok"

\* C9 (as claimed): when both lookups fail and earliest < latest, the run
\* ends with a written result file and no error.  Stated for the runs that
\* were given an output path.
C9_BothFailAlwaysWritten ==
    (pc = "done" /\ startLookup.kind = "error" /\ endLookup.kind = "error"
        /\ firstOffset < lastOffset /\ output # "")
    => (result = "ok" /\ fileExists)

\* C9 (amended): a failed lookup is not an error of the command: the start
\* offset is then the first offset and the end offset the last offset.  When
\* both lookups fail and first < last, the range is not rejected as empty,
\* and the run ends with the file written, unless positioning the cursor or
\* creating or encoding the file fails.
C9_FallbackOnError ==
    /\ startLookup.kind = "error" => startOffset = firstOffset
    /\ endLookup.kind = "error" => endOffset = lastOffset
    /\ (startLookup.kind = "error" /\ endLookup.kind = "error"
            /\ firstOffset < lastOffset)
       => /\ result # "EmptyResultWindow"
          /\ pc = "done" =>
               \/ result = "ok" /\ fileExists /\ FileEnvelopes = messages
               \/ result \in {"CursorPositionError", "OutputWriteError"}

\* C9 witness: both lookups failed and the whole range [first, last), of at
\* least two records, is in the written file.
C9_Witness ==
    /\ pc = "done"
    /\ result = "ok"
    /\ startLookup.kind = "error"
    /\ endLookup.kind = "error"
    /\ lastOffset - firstOffset >= 2
    /\ Len(FileEnvelopes) = lastOffset - firstOffset

\* The lookup answered with an offset that is the broker's -1 or lies
\* outside [firstOffset, lastOffset].
OutOfRange(r) == r.kind = "value" /\ (r.v = -1 \/ r.v < firstOffset \/ r.v > lastOffset)

\* C10 (as claimed): an answer of -1, or outside [first, last], is not used:
\* the start offset is then the first offset, the end offset the last offset.
C10_OutOfRangeFallsBack ==
    /\ OutOfRange(startLookup) => startOffset = firstOffset
    /\ OutOfRange(endLookup) => endOffset = lastOffset

(***************************************************************************)
(* The resolved range.                                                     *)
(***************************************************************************)
\* C11 (as claimed): whenever the cursor is opened,
\* firstOffset <= startOffset < endOffset <= lastOffset, whatever the two
\* lookups answered.
C11_RangeWithinBoundaries ==
    cursorOpened =>
        /\ 0 <= startOffset
        /\ firstOffset <= startOffset
        /\ startOffset < endOffset
        /\ endOffset <= lastOffset

\* C12 (as claimed): on the same partition and in the same role, the offset
\* taken for the earlier of two instants is at most the offset taken for the
\* later one.
C12_ResolutionMonotonic ==
    (fn.op = "resolve" /\ fn.done) => fn.out.o1 <= fn.out.o2

\* Both boundary offsets were read without an error.
BoundariesRead ==
    /\ pc \notin {"start", "connect", "boundary", "fn"}
    /\ result \notin {"TopicMandatory", "InvalidTime", "ClientError",
                      "TopicNotFound", "OffsetsError"}

\* C13: when the two boundary offsets read are equal, the command ends with
\* the empty-partition error, without a cursor and without an output file.
C13_EqualBoundariesFail ==
    (BoundariesRead /\ firstOffset = lastOffset) =>
        /\ pc = "done"
        /\ result = "EmptyPartition"
        /\ startLookup.kind = "none"
        /\ ~cursorOpened
        /\ ~fileExists

\* C13 witness: the partition once held records, all deleted since: both
\* boundary offsets are the same positive offset, and the command has failed
\* on it.
C13_Witness ==
    /\ BoundariesRead
    /\ firstOffset = lastOffset
    /\ lastOffset > 0
    /\ result = "EmptyPartition"

\* C14: a cursor is opened, and the loop entered, only with
\* startOffset < endOffset; once both offsets are resolved with
\* startOffset >= endOffset, the command has ended with the
\* empty-result-window error, without a cursor and without an output file.
C14_CursorOnlyOnNonEmptyRange ==
    /\ (cursorOpened \/ pc = "reading") => startOffset < endOffset
    /\ (endLookup.kind # "none" /\ startOffset >= endOffset) =>
          /\ pc = "done"
          /\ result = "EmptyResultWindow"
          /\ ~cursorOpened
          /\ ~fileExists

\* C14 witness: on a partition that holds records, both lookups answered the
\* same offset, and the command has failed on the empty range.
C14_Witness ==
    /\ result = "EmptyResultWindow"
    /\ firstOffset < lastOffset
    /\ startLookup.kind = "value"
    /\ endLookup.kind = "value"
    /\ startOffset = endOffset

Matches(s) == \E i \in DOMAIN Formats : LayoutAccepts(Formats[i], s)

\* A string the caller gave that no layout accepts.
Unparsable(s) == s # EmptyStr /\ ~Matches(s)

\* C16 (as claimed): with a topic given, when --from or --to is a string
\* that no layout accepts, the step that parses the window ends the command
\* with the invalid-time error.
C16_BadStringAlwaysFails ==
    [][(pc = "start" /\ topic # "" /\ (Unparsable(fromStr) \/ Unparsable(toStr)))
         => (pc' = "done" /\ result' = "InvalidTime")]_vars

\* C16 (amended): with a topic given and both --from and --to given, when
\* one of them is a string that no layout accepts, the step that parses the
\* window ends the command with the invalid-time error: nothing was
\* connected to, no offset was read, no cursor opened and no file created.
\* A command that has ended with that error has done none of these.
C16_BadStringFailsFirst ==
    /\ [][(pc = "start" /\ topic # "" /\ fromStr # EmptyStr /\ toStr # EmptyStr
             /\ (Unparsable(fromStr) \/ Unparsable(toStr)))
           => (pc' = "done" /\ result' = "InvalidTime")]_vars
    /\ [](result = "InvalidTime" =>
            /\ pc = "done"
            /\ firstOffset = 0
            /\ lastOffset = 0
            /\ startLookup.kind = "none"
            /\ endLookup.kind = "none"
            /\ ~cursorOpened
            /\ ~fileExists)

\* C16 witness: --from was parsed and --to is a string no layout accepts;
\* the command has ended with the invalid-time error.
C16_Witness ==
    /\ result = "InvalidTime"
    /\ Matches(fromStr)
    /\ Unparsable(toStr)
    /\ from > 0

\* The least format index whose layout accepts the string.
FirstMatch(s) ==
    CHOOSE i \in DOMAIN Formats :
        /\ LayoutAccepts(Formats[i], s)
        /\ \A j \in DOMAIN Formats : LayoutAccepts(Formats[j], s) => i <= j

\* C17: parseTimeWithTimezone answers with the first format, in the order
\* of formats, whose layout accepts the string, and fails when none does; a
\* string that spells an offset gives the instant of its wall-clock fields
\* at that offset; a string of one of the four other forms gives the instant
\* of its wall-clock fields in the local zone.
C17_FirstMatchAndZone ==
    (fn.op = "parse" /\ fn.done) =>
        IF ~Matches(fn.in)
        THEN ~fn.out.ok
        ELSE /\ fn.out.ok
             /\ fn.out.format = FirstMatch(fn.in)
             /\ fn.in.kind \in OffsetKinds =>
                   (fn.out.format = 1 /\ fn.out.t = fn.in.wall - fn.in.off)
             /\ fn.in.kind \in LocalKinds =>
                   (fn.out.format > 2 /\ fn.out.t = fn.in.wall - LocalZoneOffset)

\* C17 witness: a string with fractional seconds and an offset that is not
\* the local zone's was parsed, by the first format, at its own offset.
C17_Witness ==
    /\ fn.op = "parse"
    /\ fn.done
    /\ fn.in.kind = "RFC3339Nano"
    /\ fn.in.off # LocalZoneOffset
    /\ fn.in.off # 0
    /\ fn.out.ok
    /\ fn.out.format = 1
    /\ fn.out.t = fn.in.wall - fn.in.off

(***************************************************************************)
(* Envelopes.                                                              *)
(***************************************************************************)
NotJSON(o) == RecordAt(o).Value.json = "invalid"

RawOf(o) == [kind |-> "raw", text |-> RecordAt(o).Value.text]

\* C18: every envelope made of a record whose payload is not JSON has the
\* message {"raw": payload}; and a loop step that processes such a record
\* below endOffset leaves exactly one envelope of it in the accumulator, and
\* leaves the loop running unless the step went on to a record at or past
\* endOffset.
C18_InvalidJsonWrapped ==
    /\ [](\A i \in DOMAIN messages :
             NotJSON(messages[i].Offset) =>
                 messages[i].Message = RawOf(messages[i].Offset))
    /\ [][(pc = "reading" /\ lastFetch' \in {"record", "records"} /\ cursor' > cursor)
           => \A o \in cursor..(cursor' - 1) :
                (o < endOffset /\ NotJSON(o)) =>
                    /\ Cardinality({i \in DOMAIN messages' :
                                       messages'[i].Offset = o}) = 1
                    /\ messages'[Len(messages')].Offset >= o
                    /\ (cursor' - 1 < endOffset) => (pc' = "reading" /\ result' = "running")
          ]_vars

\* C18 witness: the loop is running and the last envelope appended is the
\* raw wrapper of a record whose payload is not JSON.
C18_Witness ==
    /\ pc = "reading"
    /\ messages # <<>>
    /\ NotJSON(messages[Len(messages)].Offset)
    /\ messages[Len(messages)].Message.kind = "raw"

\* C19 (as claimed): the message of the envelope is the raw wrapper exactly
\* when the payload is not JSON; a payload that is JSON, of any kind, is the
\* message as it is.
C19_RawIffInvalid ==
    (fn.op = "decode" /\ fn.done) =>
        LET value == fn.in.rec.Value
        IN  /\ (fn.out.Message.kind = "raw") <=> (value.json = "invalid")
            /\ value.json # "invalid" =>
                  fn.out.Message = [kind |-> value.json, text |-> value.text]

\* C20 (as claimed): after a run that ended with success, the file holds a
\* JSON array of as many objects as envelopes were collected, none included,
\* in the order of collection and with their Topic, Headers and Message.
C20_FileIsArrayOfEnvelopes ==
    (pc = "done" /\ result = "ok") =>
        /\ fileContent.kind = "array"
        /\ Len(fileContent.items) = Len(messages)
        /\ \A i \in DOMAIN messages :
              /\ fileContent.items[i].Topic = messages[i].Topic
              /\ fileContent.items[i].Headers = messages[i].Headers
              /\ fileContent.items[i].Message = messages[i].Message

(***************************************************************************)
(* The output path and the configuration.                                  *)
(***************************************************************************)
\* C21 (as claimed): a run without --output whose read loop has ended ends
\* with success and with the output file written.
C21_DefaultOutputFile ==
    (pc = "done" /\ output = "" /\ endReason # "none") =>
        (result = "ok" /\ fileExists)

TrueWords == {"1", "true", "yes", "on"}

FalseWords == {"0", "false", "no", "off"}

\* C22: lookupEnvBool gives (true, true) exactly for a set variable whose
\* word, white space and case apart, is one of 1/true/yes/on, (false, true)
\* exactly for one of 0/false/no/off, and (false, false) for an unset
\* variable and for every other value.
C22_LookupEnvBool ==
    (fn.op = "envbool" /\ fn.done) =>
        /\ (fn.out = [val |-> TRUE, ok |-> TRUE])
              <=> (fn.in.set /\ fn.in.word \in TrueWords)
        /\ (fn.out = [val |-> FALSE, ok |-> TRUE])
              <=> (fn.in.set /\ fn.in.word \in FalseWords)
        /\ (fn.out = [val |-> FALSE, ok |-> FALSE])
              <=> (~fn.in.set \/ fn.in.word \notin TrueWords \cup FalseWords)

\* C22 witness: a value that is not a boolean word, in upper case and with
\* white space around it, was looked up and ignored.
C22_Witness ==
    /\ fn.op = "envbool"
    /\ fn.done
    /\ fn.in.set
    /\ fn.in.word = "not-a-bool"
    /\ fn.in.upper
    /\ fn.in.padded
    /\ fn.out = [val |-> FALSE, ok |-> FALSE]

\* C23: when KAFKA_TLS_ENABLED is a recognised boolean, a successful
\* NewConfig has TLSEnabled equal to it, whatever KAFKA_BROKERS is; and
\* every successful NewConfig has a tlsConfig exactly when TLSEnabled.
C23_TLSEnvRespected ==
    (fn.op = "config" /\ fn.done /\ ~fn.out.err) =>
        /\ (fn.in.tls.set /\ fn.in.tls.word \in TrueWords) => fn.out.TLSEnabled
        /\ (fn.in.tls.set /\ fn.in.tls.word \in FalseWords) => ~fn.out.TLSEnabled
        /\ (fn.out.tlsConfig # "nil") <=> fn.out.TLSEnabled

\* C23 witness: KAFKA_BROKERS is empty, which alone would disable TLS, and
\* KAFKA_TLS_ENABLED is " TRUE ": NewConfig succeeded with TLS enabled and a
\* tlsConfig.
C23_Witness ==
    /\ fn.op = "config"
    /\ fn.done
    /\ ~fn.out.err
    /\ fn.in.brokers = <<>>
    /\ fn.in.tls = EnvString("true", TRUE, TRUE)
    /\ fn.out.TLSEnabled
    /\ fn.out.tlsConfig = "set"

(***************************************************************************)
(* The order of the steps and the end of the loop.                         *)
(***************************************************************************)
\* The loop step processed a fetch that held a record at or past endOffset.
ObservesEnd ==
    /\ pc = "reading"
    /\ lastFetch' \in {"record", "records"}
    /\ cursor' > cursor
    /\ cursor' > endOffset

\* C24: the loop step that processes a record at or past endOffset ends the
\* loop, having appended the records of the fetch below endOffset and none
\* at or past it; once the loop has ended on endOffset, nothing is appended
\* and nothing is fetched any more.
C24_EndOffsetIsFinal ==
    /\ [][ObservesEnd =>
            /\ pc' = "create"
            /\ endReason' = "endOffset"
            /\ Len(messages') = Len(messages) + Max(0, endOffset - cursor)
            /\ \A i \in DOMAIN messages' : messages'[i].Offset < endOffset]_vars
    /\ [][(endReason = "endOffset") =>
            /\ messages' = messages
            /\ cursor' = cursor
            /\ lastFetch' = lastFetch
            /\ pc' # "reading"]_vars

\* C24 witness: the loop ended on a fetch of two records, the first below
\* endOffset and appended, the second at endOffset.
C24_Witness ==
    /\ pc = "create"
    /\ endReason = "endOffset"
    /\ lastFetch = "records"
    /\ cursor = endOffset + 1
    /\ messages # <<>>
    /\ messages[Len(messages)].Offset = endOffset - 1

\* The steps of RunE in their order; every step may also end the command.
StepOrder ==
    {<<"start", "connect">>, <<"connect", "boundary">>,
     <<"boundary", "lookupStart">>, <<"lookupStart", "lookupEnd">>,
     <<"lookupEnd", "position">>, <<"position", "reading">>,
     <<"reading", "create">>, <<"create", "encode">>, <<"encode", "done">>}

\* C25 (as claimed): the steps happen in their order, each after the one
\* before; both time strings are parsed before any broker call; the boundary
\* offsets are read before either lookup; the cursor is opened only on a
\* validated range; and the file is created only once the loop has ended, on
\* endOffset or on the deadline.
C25_FixedOrder ==
    /\ [][(pc' # pc) =>
            \/ <<pc, pc'>> \in StepOrder
            \/ pc' = "done" /\ result' # "ok"]_vars
    /\ [](pc \in {"connect", "boundary", "lookupStart", "lookupEnd", "position",
                   "reading", "create", "encode"} => (from > 0 /\ to > 0))
    /\ [](startLookup.kind # "none" => BoundariesRead)
    /\ [](cursorOpened => (endLookup.kind # "none" /\ startOffset < endOffset))
    /\ [](fileExists =>
            /\ pc \in {"encode", "done"}
            /\ endReason \in {"endOffset", "deadline"})

\* C26: when the positioning step does not succeed, it ends the command with
\* the cursor-position error; a command that ended with that error has
\* fetched nothing, appended nothing and created no file.
C26_PositionFailureEndsCommand ==
    /\ [][(pc = "position" /\ pc' # "position") =>
            \/ pc' = "reading" /\ cursorOpened' /\ result' = "running"
            \/ pc' = "done" /\ result' = "CursorPositionError"]_vars
    /\ [](result = "CursorPositionError" =>
            /\ pc = "done"
            /\ lastFetch = "none"
            /\ endReason = "none"
            /\ messages = <<>>
            /\ ~fileExists
            /\ fileContent = NoContent)

\* C26 witness: the kafka-go reader was created and SetOffset failed, on a
\* partition that holds records of the range.
C26_Witness ==
    /\ result = "CursorPositionError"
    /\ impl = "kgo"
    /\ cursorOpened
    /\ HeldInWindow # {}

\* C28 (as claimed): with an envelope collected for every offset of
\* [startOffset, endOffset) and the deadline not passed, a loop step that
\* meets no record at or past endOffset leaves the loop running.
C28_CountDoesNotEndLoop ==
    [][(pc = "reading" /\ Len(messages) = endOffset - startOffset
          /\ ~deadlinePassed /\ cursor' <= endOffset)
         => pc' = "reading"]_vars

\* C27 (as claimed): the timeout of a range of 1 to 2^63 - 2 expected
\* records is at least 10 seconds, not negative, and less than the timeout
\* of a range of one record more.
C27_TimeoutGrows ==
    (fn.op = "timeout" /\ fn.done) =>
        /\ ~Negative(fn.out.t)
        /\ ~Less64(fn.out.t, TenSeconds)
        /\ Less64(fn.out.t, fn.out.next)

(***************************************************************************)
(* The consume and the produce command.                                    *)
(***************************************************************************)
\* C29: once the deadline of readWithReader has passed, the function
\* returns, whatever was fetched before; and it has returned with its client
\* closed whenever it had one.
C29_ConsumeLoopEnds ==
    /\ (consumer.pc = "loop" /\ consumer.deadline) ~> (consumer.pc = "returned")
    /\ (consumer.pc = "loop") ~> (consumer.pc = "returned")
    /\ [](consumer.pc = "returned" => consumer.client \in {"none", "closed"})
    /\ []((consumer.pc = "returned" /\ consumer.client = "none")
             => (consumer.impl = "franz" /\ consumer.lastFetch = "none"))

\* C29 witness: the franz-go loop printed messages, and returned after the
\* deadline with its client closed.
C29_Witness ==
    /\ consumer.pc = "returned"
    /\ consumer.impl = "franz"
    /\ consumer.deadline
    /\ consumer.client = "closed"
    /\ consumer.printed >= 2

RECURSIVE WrittenAll(_)
WrittenAll(msgs) ==
    IF msgs = <<>> THEN <<>>
    ELSE <<Written(Head(msgs))>> \o WrittenAll(Tail(msgs))

IsPrefix(a, b) == Len(a) <= Len(b) /\ a = SubSeq(b, 1, Len(a))

Batch == producer.inputFile # ""

\* C30: with --input, what has been produced is at every moment the first
\* envelopes of the file, in file order, and grows by one envelope at a
\* time; when the command ends on a marshal or a produce error at envelope
\* n, the n - 1 envelopes before it are produced and none after it; when it
\* ends with success, all are.  With neither --message nor --input the
\* command ends with an error and nothing is produced.
C30_BatchInFileOrder ==
    /\ [](Batch => IsPrefix(producer.log, WrittenAll(producer.file.items)))
    /\ [][Batch => (IsPrefix(producer.log, producer.log')
                     /\ Len(producer.log') <= Len(producer.log) + 1)]_vars
    /\ []((Batch /\ producer.result \in {"Marshal", "Produce"}) =>
            /\ producer.pc = "done"
            /\ Len(producer.log) >= producer.next - 1
            /\ Len(producer.log) <= producer.next)
    /\ []((Batch /\ producer.result = "ok") =>
            producer.log = WrittenAll(producer.file.items))
    /\ []((producer.message = "" /\ producer.inputFile = ""
              /\ producer.pc # "start") =>
            /\ producer.pc = "done"
            /\ producer.result = "NoInput"
            /\ producer.log = <<>>)

\* C30 witness: the batch ended on a produce error at the third envelope of
\* the file, the two before it produced.
C30_Witness ==
    /\ Batch
    /\ producer.pc = "done"
    /\ producer.result = "Produce"
    /\ producer.next = 3
    /\ producer.log = WrittenAll(SubSeq(producer.file.items, 1, 2))

====
